---- MODULE Spec2Model ----
(***************************************************************************)
(* Model of the package-operation execution core of comm-kernel-manager:   *)
(* the worker threads of KernelManager, PackageManager and MesaManager     *)
(* that spawn pacman, stream its merged output line by line, infer a       *)
(* progress fraction and report through progress / output / complete       *)
(* callbacks.                                                              *)
(*                                                                         *)
(* Fractions are exact rationals [n, d] in lowest terms.  Time is counted  *)
(* in tenths of a second.  A child output line is a record of the features *)
(* the code inspects: the trigger phrases it contains, its "NN%" token,    *)
(* its "(current/total)" token and its "linux<name>-<version>" token.      *)
(***************************************************************************)
EXTENDS Integers, Sequences, FiniteSets, TLC

\* ------------------------------------------------------------------ bounds
MaxLines == 2
MaxRaises == 1

\* ------------------------------------------------------- program constants
HalfSecond == 5
OneSecond == 10
FiveSeconds == 50

\* --------------------------------------------------------------- rationals
RECURSIVE GCD(_, _)
GCD(a, b) == IF b = 0 THEN a ELSE GCD(b, a % b)

Abs(x) == IF x < 0 THEN -x ELSE x

Frac(n, d) ==
    LET g == GCD(Abs(n), d)
    IN  IF n = 0 THEN [n |-> 0, d |-> 1] ELSE [n |-> n \div g, d |-> d \div g]

RAdd(a, b) == Frac(a.n * b.d + b.n * a.d, a.d * b.d)
RMul(a, b) == Frac(a.n * b.n, a.d * b.d)
RLe(a, b) == a.n * b.d <= b.n * a.d
RLt(a, b) == a.n * b.d < b.n * a.d
RMin(a, b) == IF RLe(a, b) THEN a ELSE b

Zero == Frac(0, 1)
One == Frac(1, 1)
NoFrac == [n |-> -1, d |-> 1]

\* ------------------------------------------------------------ output lines
\* str.lower() on the phrases of the vocabulary.
Lower(w) ==
    CASE w = "Downloading" -> "downloading"
      [] w = "Installing" -> "installing"
      [] w = "Removing" -> "removing"
      [] w = "Synchronizing package databases" -> "synchronizing package databases"
      [] w = "Checking dependencies" -> "checking dependencies"
      [] OTHER -> w

\* needle is a substring of hay, for the phrases of the vocabulary.
SubstrOf(needle, hay) ==
    \/ needle = hay
    \/ <<needle, hay>> \in { <<"download", "downloading">>,
                             <<"download", "total download size">> }

\* `needle in line`
Has(line, needle) == \E w \in line.words : SubstrOf(needle, w)
\* `needle in line.lower()`
HasLower(line, needle) == \E w \in line.words : SubstrOf(needle, Lower(w))

Line(text, words, pct, cur, tot, pkg) ==
    [text |-> text, words |-> words, pct |-> pct, cur |-> cur, tot |-> tot,
     pkg |-> pkg]

\* line.strip() == ""
Blank(line) == line.text = ""

\* re.search(r"(\d+)%", line), re.search(r"\((\d+)/(\d+)\)", line)
HasPercent(line) == line.pct >= 0
HasRatio(line) == line.tot >= 0

LBlank == Line("", {}, -1, -1, -1, FALSE)
LSync == Line(":: Synchronizing package databases...",
              {"Synchronizing package databases"}, -1, -1, -1, FALSE)
LDeps == Line("checking dependencies...", {"checking dependencies"}, -1, -1, -1, FALSE)
LDl14 == Line("downloading linux66 (1/4)", {"downloading"}, -1, 1, 4, FALSE)
LDlOver == Line("downloading (10/1)", {"downloading"}, -1, 10, 1, FALSE)
LDlZero == Line("downloading (1/0)", {"downloading"}, -1, 1, 0, FALSE)
LDlPct == Line("downloading 250%", {"downloading"}, 250, -1, -1, FALSE)
LDlPlain == Line("downloading linux66...", {"downloading"}, -1, -1, -1, FALSE)
LInstalling == Line("installing linux66...", {"installing"}, -1, -1, -1, FALSE)
LInstalled == Line("installed linux66", {"installed"}, -1, -1, -1, FALSE)
LPkgTok == Line("linux66-6.6.1-1 ready", {}, -1, -1, -1, TRUE)
LError == Line("error: failed to commit transaction", {"error:"}, -1, -1, -1, FALSE)
LRemoving == Line("removing linux66...", {"removing"}, -1, -1, -1, FALSE)
LHooks == Line(":: Running post-transaction hooks...",
               {"running post-transaction hooks"}, -1, -1, -1, FALSE)
LCapDl == Line("Downloading 50% (1/4)", {"Downloading"}, 50, 1, 4, FALSE)
LCapDlOver == Line("Downloading 100% (10/1)", {"Downloading"}, 100, 10, 1, FALSE)
LCapDlZero == Line("Downloading 0% (1/0)", {"Downloading"}, 0, 1, 0, FALSE)
LCapInstalling == Line("Installing", {"Installing"}, -1, -1, -1, FALSE)

\* --------------------------------------------------------- callback calls
Call(cb, frac, text, ok) == [cb |-> cb, frac |-> frac, text |-> text, ok |-> ok]
Prog(f, t) == Call("progress", f, t, FALSE)
Out(t) == Call("output", NoFrac, t, FALSE)
Complete(ok) == Call("complete", NoFrac, "", ok)

\* The worker's local variables (one record for all runners; a runner leaves
\* the fields it does not have at their initial value).
Locals(progress, total) ==
    [downloading |-> FALSE, installing |-> FALSE, progress |-> progress,
     ageU |-> 0, ageL |-> 0, step |-> 0, processed |-> 0, total |-> total]

\* Result of handling one line: the locals after it, the callback calls made
\* in order, and the exception raised ("" when none).
Handled(st, calls, exc) == [st |-> st, calls |-> calls, exc |-> exc]

\* progress = band_start + (current / total) * band_width
Scale(start, cur, tot, width) == RAdd(start, RMul(Frac(cur, tot), width))

\* progress = min(base + progress * 0.1, 0.9)
Damp(base, progress) == RMin(RAdd(base, RMul(progress, Frac(1, 10))), Frac(9, 10))

\* ----------------------------------------- KernelManager._install_kernel_thread
\* The periodic re-emission and the "Still working..." message that end an
\* iteration of the kernel runners' loops.
KTail(st, calls, stillText) ==
    LET per == st.ageU > HalfSecond
        c1 == IF per THEN Append(calls, Prog(st.progress, "None")) ELSE calls
        s1 == IF per THEN [st EXCEPT !.ageU = 0] ELSE st
        still == s1.ageL > FiveSeconds
        c2 == IF still THEN Append(c1, Out(stillText)) ELSE c1
        s2 == IF still THEN [s1 EXCEPT !.ageL = 0] ELSE s1
    IN  Handled(s2, c2, "")

\* The download branch of the install loop.
KIDownload(st, calls, line) ==
    LET sD == [st EXCEPT !.downloading = TRUE]
        pP == Scale(Frac(1, 10), line.pct, 100, Frac(4, 10))
        sP == IF HasPercent(line) THEN [sD EXCEPT !.progress = pP] ELSE sD
        cP == IF HasPercent(line)
                 THEN Append(calls, Prog(pP, "Downloading: NN%")) ELSE calls
    IN  IF HasRatio(line)
          THEN IF line.tot = 0
                 THEN Handled(sP, cP, "division by zero")
                 ELSE LET pR == Scale(Frac(1, 10), line.cur, line.tot, Frac(4, 10))
                      IN  Handled([sP EXCEPT !.progress = pR],
                                  Append(cP, Prog(pR, "Downloading packages (n/m)...")), "")
          ELSE IF sP.ageU > OneSecond
                 THEN Handled([sP EXCEPT !.ageU = 0],
                              Append(cP, Prog(sP.progress, "Downloading packages...")), "")
                 ELSE Handled(sP, cP, "")

\* The if / elif chain of the install loop.
KIBranch(st, calls, line) ==
    IF HasLower(line, "downloading") \/ HasLower(line, "baixando")
          \/ HasLower(line, "download")
      THEN KIDownload(st, calls, line)
    ELSE IF HasLower(line, "installing") \/ HasLower(line, "instalando")
      THEN Handled([st EXCEPT !.installing = TRUE],
                   Append(calls, Prog(Frac(5, 10), "Installing kernel...")), "")
    ELSE IF st.installing /\ (HasLower(line, "installed") \/ HasLower(line, "instalado"))
      THEN LET p == Damp(Frac(5, 10), st.progress)
           IN  Handled([st EXCEPT !.progress = p], Append(calls, Prog(p, "Installing...")), "")
    ELSE IF HasLower(line, "generating grub configuration file")
              \/ HasLower(line, "gerando arquivo de configuração do grub")
      THEN Handled(st, Append(calls, Prog(Frac(9, 10), "Updating bootloader...")), "")
    ELSE IF HasLower(line, "synchronizing package databases")
              \/ HasLower(line, "sincronizando bases de dados de pacotes")
      THEN Handled(st, Append(calls, Prog(Frac(1, 10), "Synchronizing package databases...")), "")
    ELSE IF HasLower(line, "checking dependencies")
              \/ HasLower(line, "verificando dependências")
      THEN Handled(st, Append(calls, Prog(Frac(2, 10), "Checking dependencies...")), "")
    ELSE IF HasLower(line, "checking for file conflicts")
              \/ HasLower(line, "verificando conflitos de arquivos")
      THEN Handled(st, Append(calls, Prog(Frac(4, 10), "Checking for file conflicts...")), "")
    ELSE IF HasLower(line, "total download size")
              \/ HasLower(line, "tamanho total de download")
      THEN Handled(st, Append(calls, Out("-> <line>")), "")
    ELSE Handled(st, calls, "")

\* An install loop that forwards the line after parsing it.
KIProcessLineLate(st, line) ==
    LET b == KIBranch(st, <<>>, line)
        c1 == IF ~Blank(line) THEN Append(b.calls, Out(line.text)) ELSE b.calls
    IN  IF b.exc # "" THEN b
        ELSE KTail(b.st, c1, "Still working... (last action)")

\* One iteration of the install loop on `line`; st carries the ages of
\* last_progress_update and last_line_time at the time the line is read.
KIProcessLine(st, line) ==
    LET c0 == IF ~Blank(line) THEN <<Out(line.text)>> ELSE <<>>
        s0 == IF ~Blank(line) THEN [st EXCEPT !.ageL = 0] ELSE st
        b == KIBranch(s0, c0, line)
        c2 == IF line.pkg /\ b.st.installing
                THEN Append(b.calls, Prog(b.st.progress, "Installing <pkg> <version>"))
              ELSE IF HasLower(line, "error:")
                THEN Append(b.calls, Out("ERROR: <line>"))
              ELSE b.calls
    IN  IF b.exc # "" THEN b
        ELSE KTail(b.st, c2, "Still working... (last action)")

KILines ==
    {LBlank, LSync, LDl14, LDlOver, LDlZero, LDlPct, LDlPlain, LInstalling,
     LInstalled, LPkgTok, LError}

\* ------------------------------------------ KernelManager._remove_kernel_thread
KRBranch(st, calls, line) ==
    IF HasLower(line, "checking dependencies") \/ HasLower(line, "verificando dependências")
      THEN Handled([st EXCEPT !.progress = Frac(2, 10), !.step = 1],
                   Append(calls, Prog(Frac(2, 10), "Checking dependencies...")), "")
    ELSE IF HasLower(line, "looking for conflicting packages")
              \/ HasLower(line, "procurando por pacotes conflitantes")
      THEN Handled([st EXCEPT !.progress = Frac(3, 10), !.step = 2],
                   Append(calls, Prog(Frac(3, 10), "Looking for conflicting packages...")), "")
    ELSE IF HasLower(line, "removing") \/ HasLower(line, "removendo")
      THEN LET n == st.processed + 1
               p == IF st.total > 0 THEN Scale(Frac(3, 10), n, st.total, Frac(4, 10))
                    ELSE Frac(5, 10)
           IN  Handled([st EXCEPT !.processed = n, !.progress = p, !.step = 3],
                       Append(calls, Prog(p, "Removing packages (n/m)...")), "")
    ELSE IF HasLower(line, "running post-transaction hooks")
              \/ HasLower(line, "executando hooks pós-transação")
      THEN Handled([st EXCEPT !.progress = Frac(8, 10), !.step = 4],
                   Append(calls, Prog(Frac(8, 10), "Running post-transaction hooks...")), "")
    ELSE IF HasLower(line, "generating grub configuration file")
              \/ HasLower(line, "gerando arquivo de configuração do grub")
      THEN Handled([st EXCEPT !.progress = Frac(9, 10), !.step = 5],
                   Append(calls, Prog(Frac(9, 10), "Updating bootloader...")), "")
    ELSE IF HasLower(line, "error:")
      THEN Handled(st, Append(calls, Out("ERROR: <line>")), "")
    ELSE IF HasLower(line, "image") /\ HasLower(line, "found")
      THEN Handled([st EXCEPT !.progress = Frac(85, 100)],
                   Append(calls, Prog(Frac(85, 100), "Updating bootloader information...")), "")
    ELSE Handled(st, calls, "")

\* One iteration of the removal loop on `line`.
KRProcessLine(st, line) ==
    LET c0 == IF ~Blank(line) THEN <<Out(line.text)>> ELSE <<>>
        s0 == IF ~Blank(line) THEN [st EXCEPT !.ageL = 0] ELSE st
        b == KRBranch(s0, c0, line)
    IN  KTail(b.st, b.calls, "Still working... (removal step)")

KRLines == {LBlank, LDeps, LRemoving, LHooks, LError}

\* ------------------------------------------------- PackageManager's runners
\* The download / install chain shared, line for line, by
\* _install_package_thread, _update_system_thread and the install phase of
\* MesaManager._apply_driver_thread (start, width: the download band;
\* inst: the fraction of the "Installing" state).
PMChain(st, line, start, width, inst) ==
    IF Has(line, "Downloading") /\ HasPercent(line)
      THEN IF HasRatio(line)
             THEN IF line.tot = 0
                    THEN Handled([st EXCEPT !.downloading = TRUE], <<>>, "division by zero")
                    ELSE LET p == Scale(start, line.cur, line.tot, width)
                         IN  Handled([st EXCEPT !.downloading = TRUE, !.progress = p],
                                     <<Prog(p, "Downloading packages (n/m)...")>>, "")
             ELSE Handled([st EXCEPT !.downloading = TRUE], <<>>, "")
    ELSE IF Has(line, "Installing")
      THEN Handled([st EXCEPT !.installing = TRUE], <<Prog(inst, "Installing packages...")>>, "")
    ELSE IF st.installing /\ HasLower(line, "installing")
      THEN LET p == Damp(inst, st.progress)
           IN  Handled([st EXCEPT !.progress = p], <<Prog(p, "Installing...")>>, "")
    ELSE Handled(st, <<>>, "")

\* _install_package_thread: one iteration of the loop
PIProcessLine(st, line) ==
    LET h == PMChain(st, line, Frac(1, 10), Frac(4, 10), Frac(5, 10))
    IN  Handled([h.st EXCEPT !.downloading = FALSE], h.calls, h.exc)

\* _remove_package_thread: one iteration of the loop
PRProcessLine(st, line) ==
    IF HasLower(line, "removing")
      THEN Handled(st, <<Prog(Frac(5, 10), "Removing packages...")>>, "")
      ELSE Handled(st, <<>>, "")

\* _update_system_thread: one iteration of the loop
USProcessLine(st, line) ==
    IF Has(line, "Synchronizing package databases")
      THEN Handled(st, <<Prog(Frac(1, 10), "Synchronizing package databases...")>>, "")
      ELSE PMChain(st, line, Frac(1, 10), Frac(4, 10), Frac(5, 10))

\* ----------------------------------------- MesaManager._apply_driver_thread
\* removal phase: one iteration of the loop
ADRemoveLine(st, line) ==
    IF HasLower(line, "removing")
      THEN Handled(st, <<Prog(Frac(3, 10), "Removing conflicting packages...")>>, "")
      ELSE Handled(st, <<>>, "")

\* install phase: one iteration of the loop
ADInstallLine(st, line) == PMChain(st, line, Frac(4, 10), Frac(3, 10), Frac(7, 10))

PILines == {LCapDl, LCapDlOver, LCapDlZero, LCapInstalling, LInstalling, LError}
PRLines == {LRemoving, LError}
USLines == {LSync, LCapDl, LCapDlOver, LCapDlZero, LCapInstalling, LInstalling}
ADLines == {LRemoving, LCapDl, LCapDlOver, LCapDlZero, LCapInstalling, LInstalling, LError}

\* ------------------------------------------------------------- environment
\* Packages the repositories offer; anything else is an unknown target.
Repo ==
    {"linux66", "linux66-headers", "mesa", "mesa-amber", "mesa-tkg", "mesa-git",
     "mesa-tkg-git", "htop"}

\* Kernels the kernel lists know (get_available_kernels / get_installed_kernels).
KnownKernels == {"linux66"}
KernelArgs == {"linux66", "linux-bogus"}
PackageArgs == {"htop", "nopkg"}
DriverArgs == {"amber", "stable", "tkg-stable", "tkg-git", "bogus"}

InstalledAtStart ==
    { {},
      {"linux66", "linux66-headers", "mesa", "htop"},
      {"linux66", "mesa-amber", "mesa-git"} }

ExitCodes == {0, 1}
Delays == {0, 3, 11, 51}
AgeCap == FiveSeconds + 1

\* f"{kernel_name}-headers"
Headers(k) ==
    CASE k = "linux66" -> "linux66-headers"
      [] k = "linux-bogus" -> "linux-bogus-headers"
      [] OTHER -> "-headers"

\* A kernel installed without its headers.
GetKernelModulesNone(k) == <<>>

\* KernelManager._get_kernel_modules
GetKernelModules(k) == <<Headers(k)>>

\* MesaManager._define_available_drivers
Drivers ==
    << [id |-> "amber", packages |-> <<"mesa-amber">>,
        conflicts |-> <<"mesa", "mesa-git", "mesa-tkg-git">>],
       [id |-> "stable", packages |-> <<"mesa">>,
        conflicts |-> <<"mesa-amber", "mesa-git", "mesa-tkg-git">>],
       [id |-> "tkg-stable", packages |-> <<"mesa-tkg">>,
        conflicts |-> <<"mesa", "mesa-amber", "mesa-git", "mesa-tkg-git">>],
       [id |-> "tkg-git", packages |-> <<"mesa-tkg-git">>,
        conflicts |-> <<"mesa", "mesa-amber", "mesa-tkg">>] >>

NoDriver == [id |-> "", packages |-> <<>>, conflicts |-> <<>>]

Range(seq) == {seq[i] : i \in 1..Len(seq)}

\* [x for x in seq if x in keep], order kept
RECURSIVE FilterSeq(_, _)
FilterSeq(seq, keep) ==
    IF seq = <<>> THEN <<>>
    ELSE LET rest == FilterSeq(Tail(seq), keep)
         IN  IF Head(seq) \in keep THEN <<Head(seq)>> \o rest ELSE rest

SudoCommand == "pkexec"

\* ------------------------------------------------------------------- state
VARIABLES
    installed,   \* packages pacman has installed
    op,          \* the operation requested: kind, target, packages, driver, phase
    pc,          \* where the worker thread is
    threads,     \* worker threads started
    loc,         \* the worker's local variables
    nread,       \* lines read from children so far
    transcript,  \* the lines read, in order
    procs,       \* children spawned: argv, state, exit code
    log,         \* callback invocations so far, in order
    exc,         \* the exception that entered the except block
    raisesLeft,  \* how many more callback invocations may raise
    query,       \* the pacman query run: command, exit code, output
    returned,    \* the list the query function returned
    ui           \* the page shown: dialogs, workers, idle queue, widget updates

vars ==
    <<installed, op, pc, threads, loc, nread, transcript, procs, log, exc, raisesLeft,
      query, returned, ui>>

\* No query was run.
NoQuery == [cmd |-> <<>>, code |-> 0, entries |-> <<>>, stdout |-> <<>>]
NoQueryYet == query = NoQuery /\ returned = <<>>

\* No page is shown.
NoUi ==
    [page |-> "none", dialogs |-> <<>>, current |-> 0, workers |-> <<>>, idle |-> <<>>,
     applied |-> <<>>, issued |-> 0]

NoOp == [kind |-> "none", target |-> "", packages |-> <<>>, driver |-> NoDriver,
         phase |-> "", absent |-> FALSE]

Running == \E i \in 1..Len(procs) : procs[i].st = "running"

\* The calls made by one step, as log entries: the line being handled, whether
\* a child was running, the thread that made the call, and whether the
\* callback raised.
Stamp(calls, ln, run, thr) ==
    [i \in 1..Len(calls) |->
        [cb |-> calls[i].cb, frac |-> calls[i].frac, text |-> calls[i].text,
         ok |-> calls[i].ok, ln |-> ln, run |-> run, thr |-> thr, raised |-> FALSE]]

\* r = 0: every call returns; r > 0: the r-th call raises and the rest is
\* never made.
Delivered(entries, r) ==
    IF r = 0 THEN entries
    ELSE [i \in 1..r |-> IF i = r THEN [entries[i] EXCEPT !.raised = TRUE] ELSE entries[i]]

RaiseChoices(entries) == IF raisesLeft > 0 THEN 0..Len(entries) ELSE {0}

TypeOK ==
    /\ installed \subseteq Repo
    /\ pc \in {"idle", "started", "try", "loop", "wait", "handler", "done", "escaped"}
    /\ threads \in 0..1
    /\ nread \in 0..MaxLines
    /\ raisesLeft \in 0..MaxRaises

InitCommon ==
    /\ installed \in InstalledAtStart
    /\ op = NoOp
    /\ pc = "idle"
    /\ threads = 0
    /\ loc = Locals(Zero, 0)
    /\ nread = 0
    /\ transcript = <<>>
    /\ procs = <<>>
    /\ log = <<>>
    /\ exc = ""
    /\ NoQueryYet
    /\ ui = NoUi

\* Callbacks that always return.
Init == InitCommon /\ raisesLeft = 0

\* Callbacks that may raise.
InitRaise == InitCommon /\ raisesLeft = MaxRaises

\* ------------------------------------------------------- the facade calls
\* A call records the operation; `absent` notes that, when the call was made,
\* none of the packages it is about (for apply_driver: none of the driver's
\* declared conflicts) was installed.
Started(kind, target, packages, driver, phase, absent) ==
    /\ op' = [kind |-> kind, target |-> target, packages |-> packages,
              driver |-> driver, phase |-> phase, absent |-> absent]
    /\ pc' = "started"
    /\ threads' = threads + 1
    /\ UNCHANGED <<installed, loc, nread, transcript, procs, log, exc, raisesLeft>>
    /\ UNCHANGED <<query, returned, ui>>

\* KernelManager.install_kernel
InstallKernel(k) ==
    /\ pc = "idle"
    /\ LET packages == <<k>> \o GetKernelModules(k)
       IN  Started("install_kernel", k, packages, NoDriver, "",
                   Range(packages) \cap installed = {})

\* KernelManager.remove_kernel
RemoveKernel(k) ==
    /\ pc = "idle"
    /\ LET packages == <<k>> \o GetKernelModules(k)
           installed_packages == FilterSeq(packages, installed)
       IN  Started("remove_kernel", k, installed_packages, NoDriver, "",
                   Range(packages) \cap installed = {})

\* PackageManager.install_package
InstallPackage(p) ==
    /\ pc = "idle"
    /\ Started("install_package", p, <<p>>, NoDriver, "", p \notin installed)

\* PackageManager.remove_package
RemovePackage(p) ==
    /\ pc = "idle"
    /\ Started("remove_package", p, <<p>>, NoDriver, "", p \notin installed)

\* PackageManager.update_system
UpdateSystem ==
    /\ pc = "idle"
    /\ Started("update_system", "", <<>>, NoDriver, "", FALSE)

\* for driver in self.drivers: if driver["id"] == driver_id: ... break
RECURSIVE FindDriver(_, _)
FindDriver(seq, id) ==
    IF seq = <<>> THEN NoDriver
    ELSE IF Head(seq).id = id THEN Head(seq) ELSE FindDriver(Tail(seq), id)

\* MesaManager.apply_driver
ApplyDriver(id) ==
    /\ pc = "idle"
    /\ LET selected_driver == FindDriver(Drivers, id)
       IN  IF selected_driver = NoDriver
             THEN \E r \in RaiseChoices(<<Complete(FALSE)>>) :
                    /\ log' = log \o Delivered(Stamp(<<Complete(FALSE)>>, 0, FALSE, "caller"), r)
                    /\ op' = [NoOp EXCEPT !.kind = "apply_driver", !.target = id]
                    /\ pc' = IF r = 0 THEN "done" ELSE "escaped"
                    /\ raisesLeft' = IF r = 0 THEN raisesLeft ELSE raisesLeft - 1
                    /\ UNCHANGED <<installed, threads, loc, nread, transcript, procs, exc>>
                    /\ UNCHANGED <<query, returned, ui>>
             ELSE Started("apply_driver", id, selected_driver.packages, selected_driver,
                          "remove", Range(selected_driver.conflicts) \cap installed = {})

\* ------------------------------------------------------ the worker threads
Kernel(o) == o.kind \in {"install_kernel", "remove_kernel"}

\* f"Error: {str(e)}"
ErrorText(e) ==
    CASE e = "spawn failed" -> "Error: spawn failed"
      [] e = "division by zero" -> "Error: division by zero"
      [] OTHER -> "Error: callback raised"

\* The calls a thread function makes before it enters its try block.
PreTry(o) ==
    CASE o.kind = "install_kernel" ->
            <<Out("Thread started for kernel installation..."),
              Prog(Frac(1, 10), "Starting installation of <kernel> and modules..."),
              Out("Running command: <cmd>")>>
      [] o.kind = "remove_kernel" ->
            IF o.packages = <<>>
              THEN <<Out("No packages to remove."), Complete(TRUE)>>
              ELSE <<Out("Thread started for kernel removal..."),
                     Prog(Frac(1, 10), "Starting removal of <kernel> and modules..."),
                     Out("Running command: <cmd>")>>
      [] o.kind = "install_package" -> <<Prog(Frac(1, 10), "Installing <package>...")>>
      [] o.kind = "remove_package" -> <<Prog(Frac(1, 10), "Removing <package>...")>>
      [] o.kind = "update_system" -> <<Prog(Zero, "Updating system...")>>
      [] OTHER -> <<Prog(Frac(1, 10), "Applying <driver> driver...")>>

\* _remove_kernel_thread returns before its try block when packages is empty.
ReturnsEarly(o) == o.kind = "remove_kernel" /\ o.packages = <<>>

\* The calls made inside the try block before Popen.
TryHead(o) ==
    IF Kernel(o) THEN <<Out("Creating subprocess...")>>
    ELSE IF o.kind = "apply_driver"
      THEN IF o.phase = "remove"
             THEN IF o.driver.conflicts # <<>>
                    THEN <<Prog(Frac(2, 10), "Removing conflicting packages...")>>
                    ELSE <<>>
             ELSE <<Prog(Frac(4, 10), "Installing <driver> packages...")>>
    ELSE <<>>

\* installed_conflicts of the removal phase
InstalledConflicts(o) == FilterSeq(o.driver.conflicts, installed)

\* The removal phase spawns nothing when no declared conflict is installed.
SkipsSpawn(o) ==
    o.kind = "apply_driver" /\ o.phase = "remove" /\ InstalledConflicts(o) = <<>>

\* The command line handed to Popen.
Argv(o) ==
    CASE o.kind \in {"install_kernel", "install_package"} ->
            <<SudoCommand, "pacman", "-S", "--noconfirm">> \o o.packages
      [] o.kind \in {"remove_kernel", "remove_package"} ->
            <<SudoCommand, "pacman", "-R", "--noconfirm">> \o o.packages
      [] o.kind = "update_system" -> <<SudoCommand, "pacman", "-Syu", "--noconfirm">>
      [] OTHER ->
            IF o.phase = "remove"
              THEN <<SudoCommand, "pacman", "-Rs", "--noconfirm">> \o InstalledConflicts(o)
              ELSE <<SudoCommand, "pacman", "-S", "--noconfirm">> \o o.driver.packages

\* The calls made right after Popen returned.
AfterSpawn(o) == IF Kernel(o) THEN <<Out("Subprocess created successfully...")>> ELSE <<>>

\* The progress tracking variables as initialised before the loop.
InitLocals(o) ==
    CASE o.kind = "remove_kernel" -> Locals(Frac(1, 10), Len(o.packages))
      [] o.kind \in {"install_kernel", "install_package"} -> Locals(Frac(1, 10), 0)
      [] o.kind = "apply_driver" /\ o.phase = "install" -> Locals(Frac(4, 10), 0)
      [] OTHER -> Locals(Zero, 0)

\* One iteration of the runner's `for line in iter(readline, "")` loop.
ProcessLine(o, st, line) ==
    CASE o.kind = "install_kernel" -> KIProcessLine(st, line)
      [] o.kind = "remove_kernel" -> KRProcessLine(st, line)
      [] o.kind = "install_package" -> PIProcessLine(st, line)
      [] o.kind = "remove_package" -> PRProcessLine(st, line)
      [] o.kind = "update_system" -> USProcessLine(st, line)
      [] OTHER -> IF o.phase = "remove" THEN ADRemoveLine(st, line)
                  ELSE ADInstallLine(st, line)

LinesOf(o) ==
    CASE o.kind = "install_kernel" -> KILines
      [] o.kind = "remove_kernel" -> KRLines
      [] o.kind = "install_package" -> PILines
      [] o.kind = "remove_package" -> PRLines
      [] o.kind = "update_system" -> USLines
      [] OTHER -> ADLines

\* Only the kernel runners read the clock.
DelaysOf(o) == IF Kernel(o) THEN Delays ELSE {0}

\* The calls made when readline returns "" (end of the child's output).
AtEOF(o) == IF Kernel(o) THEN <<Out("Process completed, checking exit code...")>> ELSE <<>>

\* Success as the exit code and a transcript free of "error:" lines.
SuccessUnlessErrorLine(code) ==
    code = 0 /\ ~\E i \in 1..Len(log) : log[i].text = "ERROR: <line>"

\* success = process.returncode == 0
Success(code) == code = 0

\* A final update that leaves a failed operation at its last fraction.
FinalFractionFrozen(success) == IF success THEN One ELSE loc.progress

\* The fraction of the final progress update.
FinalFraction(success) == IF success THEN One ELSE Zero

\* The calls made after process.wait() returned with `code`.
AfterWait(o, code) ==
    LET success == Success(code)
        final == FinalFraction(success)
    IN  CASE o.kind = "install_kernel" ->
               IF success
                 THEN <<Prog(final, "Kernel installation complete!"),
                        Out("Installation completed successfully."), Complete(success)>>
                 ELSE <<Prog(final, "Kernel installation failed."),
                        Out("Installation failed with return code <n>."), Complete(success)>>
          [] o.kind = "remove_kernel" ->
               IF success
                 THEN <<Prog(final, "Kernel removal complete!"),
                        Out("Removal completed successfully."), Complete(success)>>
                 ELSE <<Prog(final, "Kernel removal failed."),
                        Out("Removal failed with return code <n>."), Complete(success)>>
          [] o.kind = "install_package" ->
               IF success THEN <<Prog(final, "Installation complete!"), Complete(success)>>
               ELSE <<Prog(final, "Installation failed."), Complete(success)>>
          [] o.kind = "remove_package" ->
               IF success THEN <<Prog(final, "Removal complete!"), Complete(success)>>
               ELSE <<Prog(final, "Removal failed."), Complete(success)>>
          [] o.kind = "update_system" ->
               IF success THEN <<Prog(final, "Update complete!"), Complete(success)>>
               ELSE <<Prog(final, "Update failed."), Complete(success)>>
          [] OTHER ->
               IF o.phase = "remove"
                 THEN IF code # 0
                        THEN <<Prog(Zero, "Failed to remove conflicting packages."),
                               Complete(FALSE)>>
                        ELSE <<>>
                 ELSE IF code # 0
                        THEN <<Prog(Zero, "Failed to install packages."), Complete(FALSE)>>
                        ELSE <<Prog(One, "Driver applied successfully!"), Complete(TRUE)>>

\* An apply_driver that installs whatever the removal returned.
GoesOnRegardless(o, code) == o.kind = "apply_driver" /\ o.phase = "remove"

\* apply_driver goes on to its install phase after a removal that exited 0.
GoesOn(o, code) == o.kind = "apply_driver" /\ o.phase = "remove" /\ code = 0

\* An except block that reports completion before the error.
ExceptCallsCompleteFirst(o, e) == <<Complete(FALSE), Prog(Zero, ErrorText(e))>>

\* An except block that reports the error and nothing else.
ExceptCallsNoComplete(o, e) ==
    IF Kernel(o) THEN <<Prog(Zero, ErrorText(e)), Out(ErrorText(e))>>
    ELSE <<Prog(Zero, ErrorText(e))>>

\* The except block.
ExceptCalls(o, e) ==
    IF Kernel(o)
      THEN <<Prog(Zero, ErrorText(e)), Out(ErrorText(e)), Complete(FALSE)>>
      ELSE <<Prog(Zero, ErrorText(e)), Complete(FALSE)>>

Min(a, b) == IF a < b THEN a ELSE b

\* A callback raised inside the try block: control enters the except block.
Raised(r) ==
    /\ pc' = "handler"
    /\ exc' = "callback raised"
    /\ raisesLeft' = raisesLeft - 1

\* The thread function up to its try block.
Prologue ==
    /\ pc = "started"
    /\ LET entries == Stamp(PreTry(op), 0, FALSE, "worker")
       IN  \E r \in RaiseChoices(entries) :
             /\ log' = log \o Delivered(entries, r)
             /\ pc' = IF r > 0 THEN "escaped" ELSE IF ReturnsEarly(op) THEN "done" ELSE "try"
             /\ raisesLeft' = IF r > 0 THEN raisesLeft - 1 ELSE raisesLeft
    /\ UNCHANGED <<installed, op, threads, loc, nread, transcript, procs, exc>>
    /\ UNCHANGED <<query, returned, ui>>

\* From the start of the try block (or of a phase of apply_driver) to the
\* start of the loop: the calls before Popen, Popen itself, which may fail,
\* the calls after it.
Spawn ==
    /\ pc = "try"
    /\ LET head == Stamp(TryHead(op), 0, Running, "worker")
           tail == Stamp(AfterSpawn(op), 0, TRUE, "worker")
       IN  IF SkipsSpawn(op)
             THEN \E r \in RaiseChoices(head) :
                    /\ log' = log \o Delivered(head, r)
                    /\ IF r > 0 THEN Raised(r) /\ op' = op
                       ELSE /\ op' = [op EXCEPT !.phase = "install"]
                            /\ UNCHANGED <<pc, exc, raisesLeft>>
                    /\ UNCHANGED <<loc, procs>>
             ELSE \E spawned \in BOOLEAN :
                  \E r \in RaiseChoices(IF spawned THEN head \o tail ELSE head) :
                    /\ op' = op
                    /\ IF r > 0 /\ r <= Len(head)
                         THEN /\ log' = log \o Delivered(head, r)
                              /\ Raised(r)
                              /\ UNCHANGED <<loc, procs>>
                         ELSE IF ~spawned
                           THEN /\ log' = log \o head
                                /\ pc' = "handler"
                                /\ exc' = "spawn failed"
                                /\ UNCHANGED <<loc, procs, raisesLeft>>
                           ELSE /\ procs' = Append(procs, [argv |-> Argv(op), st |-> "running",
                                                           code |-> -1])
                                /\ log' = log \o Delivered(head \o tail, r)
                                /\ IF r > 0 THEN Raised(r) /\ loc' = loc
                                   ELSE /\ loc' = InitLocals(op)
                                        /\ pc' = "loop"
                                        /\ UNCHANGED <<exc, raisesLeft>>
    /\ UNCHANGED <<installed, threads, nread, transcript, query, returned, ui>>

\* readline returned `line`, `delay` tenths of a second after the previous
\* iteration ended; the iteration of the loop on it.
Iteration(line, delay) ==
    /\ pc = "loop"
    /\ LET st == [loc EXCEPT !.ageU = Min(loc.ageU + delay, AgeCap),
                             !.ageL = Min(loc.ageL + delay, AgeCap)]
           h == ProcessLine(op, st, line)
           entries == Stamp(h.calls, nread + 1, TRUE, "worker")
       IN  \E r \in RaiseChoices(entries) :
             /\ log' = log \o Delivered(entries, r)
             /\ loc' = h.st
             /\ IF r > 0 THEN Raised(r)
                ELSE IF h.exc # ""
                  THEN pc' = "handler" /\ exc' = h.exc /\ raisesLeft' = raisesLeft
                  ELSE UNCHANGED <<pc, exc, raisesLeft>>
    /\ nread' = nread + 1
    /\ transcript' = Append(transcript, line)
    /\ UNCHANGED <<installed, op, threads, procs, query, returned, ui>>

\* The child prints at most MaxLines lines.
ReadLine(line, delay) == nread < MaxLines /\ Iteration(line, delay)

\* readline returned "": the child closed its output.
ReadEOF ==
    /\ pc = "loop"
    /\ LET entries == Stamp(AtEOF(op), 0, Running, "worker")
       IN  \E r \in RaiseChoices(entries) :
             /\ log' = log \o Delivered(entries, r)
             /\ IF r > 0 THEN Raised(r)
                ELSE pc' = "wait" /\ UNCHANGED <<exc, raisesLeft>>
    /\ UNCHANGED <<installed, op, threads, loc, nread, transcript, procs>>
    /\ UNCHANGED <<query, returned, ui>>

\* process.wait() returns once the child has exited; the final calls.
Finish ==
    /\ pc = "wait"
    /\ procs[Len(procs)].st = "exited"
    /\ LET code == procs[Len(procs)].code
           entries == Stamp(AfterWait(op, code), 0, Running, "worker")
       IN  \E r \in RaiseChoices(entries) :
             /\ log' = log \o Delivered(entries, r)
             /\ IF r > 0 THEN Raised(r) /\ op' = op
                ELSE IF GoesOn(op, code)
                  THEN /\ op' = [op EXCEPT !.phase = "install"]
                       /\ pc' = "try"
                       /\ UNCHANGED <<exc, raisesLeft>>
                  ELSE /\ op' = op
                       /\ pc' = "done"
                       /\ UNCHANGED <<exc, raisesLeft>>
    /\ UNCHANGED <<installed, threads, loc, nread, transcript, procs>>
    /\ UNCHANGED <<query, returned, ui>>

\* The except block; an exception raised inside it leaves the thread.
Except ==
    /\ pc = "handler"
    /\ LET entries == Stamp(ExceptCalls(op, exc), 0, Running, "worker")
       IN  \E r \in RaiseChoices(entries) :
             /\ log' = log \o Delivered(entries, r)
             /\ pc' = IF r > 0 THEN "escaped" ELSE "done"
             /\ raisesLeft' = IF r > 0 THEN raisesLeft - 1 ELSE raisesLeft
    /\ UNCHANGED <<installed, op, threads, loc, nread, transcript, procs, exc>>
    /\ UNCHANGED <<query, returned, ui>>

\* ------------------------------------------------------------ the children
Targets(argv) == {argv[i] : i \in 5..Len(argv)}

\* pacman refuses to install a target no repository has and to remove a
\* target that is not installed.
CanSucceed(argv) ==
    CASE argv[3] = "-S" -> Targets(argv) \subseteq Repo
      [] argv[3] \in {"-R", "-Rs"} -> Targets(argv) \subseteq installed
      [] OTHER -> TRUE

\* What a pacman run that exits 0 leaves installed.
Effect(argv) ==
    CASE argv[3] = "-S" -> installed \cup Targets(argv)
      [] argv[3] \in {"-R", "-Rs"} -> installed \ Targets(argv)
      [] OTHER -> installed

\* The child exits with `code`.  The worker can tell only in wait() or later,
\* so the exit is placed after the end of its output or after the worker
\* stopped reading.
ChildExit(i, code) ==
    /\ pc \in {"wait", "handler", "done", "escaped"}
    /\ procs[i].st = "running"
    /\ code = 0 => CanSucceed(procs[i].argv)
    /\ procs' = [procs EXCEPT ![i] = [@ EXCEPT !.st = "exited", !.code = code]]
    /\ installed' = IF code = 0 THEN Effect(procs[i].argv) ELSE installed
    /\ UNCHANGED <<op, pc, threads, loc, nread, transcript, log, exc, raisesLeft>>
    /\ UNCHANGED <<query, returned, ui>>

Next ==
    \/ \E k \in KernelArgs : InstallKernel(k)
    \/ \E k \in KernelArgs : RemoveKernel(k)
    \/ \E p \in PackageArgs : InstallPackage(p)
    \/ \E p \in PackageArgs : RemovePackage(p)
    \/ UpdateSystem
    \/ \E id \in DriverArgs : ApplyDriver(id)
    \/ Prologue
    \/ Spawn
    \/ \E line \in LinesOf(op), delay \in DelaysOf(op) : ReadLine(line, delay)
    \/ ReadEOF
    \/ Finish
    \/ Except
    \/ \E i \in 1..Len(procs), code \in ExitCodes : ChildExit(i, code)

Spec == Init /\ [][Next]_vars
SpecRaise == InitRaise /\ [][Next]_vars

\* ================================================================ claims
Completes == {i \in 1..Len(log) : log[i].cb = "complete"}
Progresses == {i \in 1..Len(log) : log[i].cb = "progress"}
Ended == pc \in {"done", "escaped"}
LastCall == log[Len(log)]

\* The last progress call before call j carries fraction f.
LastFractionBefore(j, f) ==
    \E i \in Progresses :
        /\ i < j
        /\ log[i].frac = f
        /\ \A k \in Progresses : k < j => k <= i

\* C1: on every path, callbacks that raise included, complete_callback is
\* invoked exactly once per operation and no progress or output call of the
\* operation follows it.
C1_CompleteExactlyOnceAndLast ==
    /\ Cardinality(Completes) <= 1
    /\ \A i \in Completes : i = Len(log)
    /\ Ended => Cardinality(Completes) = 1

\* C2: when the child was spawned and its output was read to the end, the
\* value given to complete_callback is (exit code = 0), whatever the lines
\* were.
C2_SuccessIsExitCode ==
    (pc = "done" /\ exc = "" /\ procs # <<>>) =>
        /\ LastCall.cb = "complete"
        /\ LastCall.ok = (procs[Len(procs)].code = 0)
        /\ Cardinality(Completes) = 1

C2_Witness ==
    /\ pc = "done" /\ exc = "" /\ procs # <<>>
    /\ procs[Len(procs)].code = 0
    /\ \E i \in 1..Len(log) : log[i].text = "ERROR: <line>"
    /\ LastCall.cb = "complete" /\ LastCall.ok

\* C3: in an operation that spawned a child, complete_callback is invoked only
\* once no child is still running.
C3_CompleteAfterExit ==
    \A i \in Completes : procs # <<>> => ~log[i].run

\* C4: a failed spawn or an exception raised while streaming does not leave
\* the worker: progress_callback(0.0, "Error: <description>") and then
\* complete_callback(False) are invoked, in that order.
C4_FailureTranslated ==
    /\ pc # "escaped"
    /\ (exc # "" /\ pc = "done") =>
          /\ LastCall.cb = "complete" /\ ~LastCall.ok
          /\ Cardinality(Completes) = 1
          /\ LastFractionBefore(Len(log), Zero)
          /\ \E i \in Progresses : log[i].text = ErrorText(exc)
          /\ \A i \in Progresses : log[i].text = ErrorText(exc) =>
                \A k \in Progresses : k <= i

C4_Witness == pc = "done" /\ exc = "spawn failed" /\ procs = <<>>

\* C5: every fraction given to progress_callback lies in [0.0, 1.0].
C5_FractionInUnit ==
    \A i \in Progresses : RLe(Zero, log[i].frac) /\ RLe(log[i].frac, One)

\* Call i forwards line k of the child to output_callback.
Forwards(i, k) ==
    log[i].cb = "output" /\ log[i].ln = k /\ log[i].text = transcript[k].text

\* C6: in kernel install and removal, every line read is forwarded to
\* output_callback before any progress call made while handling it (a blank
\* line is not forwarded and causes only the periodic re-emission), and the
\* lines are forwarded in the order they were read.
C6_OutputBeforeProgress ==
    Kernel(op) =>
        /\ \A j \in Progresses : log[j].ln > 0 =>
              \/ \E i \in 1..(j - 1) : Forwards(i, log[j].ln)
              \/ Blank(transcript[log[j].ln]) /\ log[j].text = "None"
        /\ \A k \in 1..Len(transcript) : ~Blank(transcript[k]) =>
              \E i \in 1..Len(log) :
                  Forwards(i, k) /\ \A h \in 1..Len(log) : log[h].ln = k => i <= h
        /\ \A i, j \in 1..Len(log) :
              (i < j /\ log[i].ln > 0 /\ log[j].ln > 0) => log[i].ln <= log[j].ln

C6_Witness ==
    /\ Kernel(op)
    /\ \E j \in Progresses : log[j].ln = 2 /\ log[j].text # "None"
    /\ \E j \in Progresses : log[j].ln = 1

\* C7 as stated: the last fraction before complete_callback(success) is 1.0
\* for success and 0.0 for failure, in every operation.
C7_LastFractionMatches ==
    \A j \in Completes :
        LastFractionBefore(j, IF log[j].ok THEN One ELSE Zero)

\* C7 amended: the same, for the operations whose worker reaches its try
\* block (a kernel removal with nothing to remove and an apply_driver of an
\* unknown id complete without a final progress call).
C7_LastFractionMatchesAfterTry ==
    \A j \in Completes :
        (log[j].thr = "worker" /\ ~ReturnsEarly(op)) =>
            LastFractionBefore(j, IF log[j].ok THEN One ELSE Zero)

C7_Witness ==
    /\ pc = "done" /\ exc = "" /\ nread = 0
    /\ procs # <<>> /\ procs[Len(procs)].code = 1
    /\ LastCall.cb = "complete" /\ ~LastCall.ok

\* C8: a removal of packages none of which is installed delivers
\* complete_callback(True) and spawns no pacman -R.
C8_AbsentRemovalIsNoop ==
    (op.kind \in {"remove_kernel", "remove_package"} /\ op.absent) =>
        /\ procs = <<>>
        /\ Ended => (LastCall.cb = "complete" /\ LastCall.ok)

\* C9: in apply_driver with a declared conflict installed, the removal is
\* spawned first and has exited (with 0) before the install is spawned; after
\* a removal that exited non-zero the install is never spawned and
\* complete_callback(False) is delivered.
C9_RemovalBeforeInstall ==
    (op.kind = "apply_driver" /\ ~op.absent) =>
        /\ procs # <<>> => procs[1].argv[3] = "-Rs"
        /\ \A i \in 1..Len(procs) : procs[i].argv[3] = "-S" =>
              i = 2 /\ procs[1].st = "exited" /\ procs[1].code = 0
        /\ (procs # <<>> /\ procs[1].st = "exited" /\ procs[1].code # 0) =>
              /\ Len(procs) = 1
              /\ pc \in {"wait", "done"}
              /\ pc = "done" => (LastCall.cb = "complete" /\ ~LastCall.ok)

C9_Witness ==
    /\ op.kind = "apply_driver" /\ ~op.absent
    /\ Len(procs) = 1 /\ procs[1].st = "exited" /\ procs[1].code = 1
    /\ pc = "done"

\* The operation names a driver the catalog lacks or a kernel no list knows.
UnknownTarget(o) ==
    \/ o.kind = "apply_driver" /\ FindDriver(Drivers, o.target) = NoDriver
    \/ Kernel(o) /\ o.target \notin KnownKernels

\* C10: an operation on an unknown target invokes complete_callback(False)
\* before the call returns and starts neither a worker nor a child.
C10_UnknownTargetFailsSynchronously ==
    UnknownTarget(op) =>
        /\ threads = 0
        /\ procs = <<>>
        /\ Len(log) = 1
        /\ LastCall.cb = "complete" /\ ~LastCall.ok /\ LastCall.thr = "caller"

\* ------------------------------------------------- the driver catalog (C11)
\* Every package the catalog names, as a requirement or as a conflict.
DriverPackages ==
    UNION {Range(Drivers[i].packages) \cup Range(Drivers[i].conflicts) :
             i \in 1..Len(Drivers)}

\* apply_driver from any set of installed driver packages.
InitDrivers ==
    /\ installed \in SUBSET DriverPackages
    /\ op = NoOp
    /\ pc = "idle"
    /\ threads = 0
    /\ loc = Locals(Zero, 0)
    /\ nread = 0
    /\ transcript = <<>>
    /\ procs = <<>>
    /\ log = <<>>
    /\ exc = ""
    /\ raisesLeft = 0
    /\ NoQueryYet
    /\ ui = NoUi

NextDrivers ==
    \/ \E id \in DriverArgs : ApplyDriver(id)
    \/ Prologue
    \/ Spawn
    \/ \E line \in LinesOf(op), delay \in DelaysOf(op) : ReadLine(line, delay)
    \/ ReadEOF
    \/ Finish
    \/ Except
    \/ \E i \in 1..Len(procs), code \in ExitCodes : ChildExit(i, code)

SpecDrivers == InitDrivers /\ [][NextDrivers]_vars

\* For distinct catalog drivers d1, d2: every required package of d2 is a
\* declared conflict of d1.
CatalogExclusive ==
    \A i, j \in 1..Len(Drivers) :
        i # j => Range(Drivers[j].packages) \subseteq Range(Drivers[i].conflicts)

\* apply_driver has delivered complete_callback(True).
Applied ==
    /\ op.kind = "apply_driver" /\ pc = "done"
    /\ LastCall.cb = "complete" /\ LastCall.ok

\* No required package of a catalog driver other than the applied one is
\* installed.
NoOtherDriverRemains ==
    \A i \in 1..Len(Drivers) :
        Drivers[i].id # op.target => Range(Drivers[i].packages) \cap installed = {}

\* C11: the catalog is mutually exclusive (each driver declares every other
\* driver's required packages as conflicts), so after a successful
\* apply_driver(d), from any initial set of installed driver packages, no
\* required package of another catalog driver is installed.
C11_DriversMutuallyExclusive ==
    Applied => (CatalogExclusive /\ NoOtherDriverRemains)

\* ------------------------------------------------- Scenario A (C12)
LA1 == Line("Synchronizing package databases...",
            {"Synchronizing package databases"}, -1, -1, -1, FALSE)
LA2 == Line("Downloading (1/4)", {"Downloading"}, -1, 1, 4, FALSE)
LA3 == Line("Downloading (4/4)", {"Downloading"}, -1, 4, 4, FALSE)
LA4 == Line("Installing", {"Installing"}, -1, -1, -1, FALSE)
\* (linux\w+)-(\d[\w\.\-]+) does not match "linux61 6.1.2-1"
LA5 == Line("installing linux61 6.1.2-1", {"installing"}, -1, -1, -1, FALSE)

ScenarioA == <<LA1, LA2, LA3, LA4, LA5>>

\* The child prints the scenario's lines, in order.
FeedLine(delay) ==
    /\ nread < Len(ScenarioA)
    /\ Iteration(ScenarioA[nread + 1], delay)

InitScenario ==
    /\ installed = {}
    /\ op = NoOp
    /\ pc = "idle"
    /\ threads = 0
    /\ loc = Locals(Zero, 0)
    /\ nread = 0
    /\ transcript = <<>>
    /\ procs = <<>>
    /\ log = <<>>
    /\ exc = ""
    /\ raisesLeft = 0
    /\ NoQueryYet
    /\ ui = NoUi

\* The install runners of the two managers fed the scenario's transcript.
NextScenario ==
    \/ InstallKernel("linux66")
    \/ InstallPackage("htop")
    \/ UpdateSystem
    \/ Prologue
    \/ Spawn
    \/ \E delay \in DelaysOf(op) : FeedLine(delay)
    \/ ReadEOF
    \/ Finish
    \/ Except
    \/ \E i \in 1..Len(procs), code \in ExitCodes : ChildExit(i, code)

SpecScenario == InitScenario /\ [][NextScenario]_vars

\* The whole scenario was fed and the child exited with 0.
ScenarioDone ==
    /\ transcript = ScenarioA
    /\ pc = "done" /\ exc = ""
    /\ procs[Len(procs)].code = 0

\* C12: fed Scenario A with exit code 0, the install runner's progress
\* fractions pass, in order, through 0.1, 0.2, 0.5, 0.5, a fraction in
\* (0.5, 0.9] for the last line, and 1.0, and complete_callback(True) follows.
C12_ScenarioAFractions ==
    ScenarioDone =>
        /\ \E i1, i2, i3, i4, i5, i6 \in Progresses :
              /\ i1 < i2 /\ i2 < i3 /\ i3 < i4 /\ i4 < i5 /\ i5 < i6
              /\ log[i1].frac = Frac(1, 10)
              /\ log[i2].frac = Frac(2, 10)
              /\ log[i3].frac = Frac(5, 10)
              /\ log[i4].frac = Frac(5, 10)
              /\ RLt(Frac(5, 10), log[i5].frac) /\ RLe(log[i5].frac, Frac(9, 10))
              /\ log[i5].ln = Len(ScenarioA)
              /\ log[i6].frac = One
        /\ LastCall.cb = "complete" /\ LastCall.ok

\* ------------------------------------------------- silence (C13, C14)
\* The calls made by the step being taken.
NewCalls == SubSeq(log', Len(log) + 1, Len(log'))

StillWorking(e) ==
    e.cb = "output"
      /\ e.text \in {"Still working... (last action)", "Still working... (removal step)"}

\* progress_callback(progress, None)
Reemission(e) == e.cb = "progress" /\ e.text = "None"

StillWorkingCount(seq) == Cardinality({i \in 1..Len(seq) : StillWorking(seq[i])})
ReemissionCount(seq) == Cardinality({i \in 1..Len(seq) : Reemission(seq[i])})

\* The heuristic state: what the worker has inferred from the lines.
Heuristic(st) == <<st.downloading, st.installing, st.progress, st.step, st.processed>>

\* C13: in kernel install and removal, a silence of more than 5 seconds is
\* answered by exactly one "Still working..." line through output_callback,
\* and delivering it changes neither the fraction nor the heuristic state
\* (they are what handling the line alone makes them, and no call follows the
\* synthetic line).
C13_StillWorkingOncePerSilence ==
    [][\A line \in LinesOf(op), delay \in Delays :
          (Kernel(op) /\ delay > FiveSeconds /\ Iteration(line, delay)) =>
              /\ StillWorkingCount(NewCalls) = 1
              /\ StillWorking(NewCalls[Len(NewCalls)])
              /\ Heuristic(loc') = Heuristic(ProcessLine(op, loc, line).st)]_vars

\* C14: while the child runs, progress_callback(fraction, None) is invoked at
\* least once in every half second, silent ones included: a read that blocked
\* for `delay` comes with a re-emission for each half second that went by.
C14_ReemissionEveryHalfSecond ==
    [][\A line \in LinesOf(op), delay \in Delays :
          (Kernel(op) /\ Iteration(line, delay)) =>
              ReemissionCount(NewCalls) >= delay \div HalfSecond]_vars

\* ------------------------------------------------- timing independence (C15)
\* The calls the loop makes on `lines` when every line arrives at once (no
\* time passes between the iterations), from locals st.
RECURSIVE Replay(_, _, _)
Replay(o, st, lines) ==
    IF lines = <<>> THEN <<>>
    ELSE LET h == ProcessLine(o, st, Head(lines))
         IN  IF h.exc # "" THEN h.calls
             ELSE h.calls \o Replay(o, h.st, Tail(lines))

IsProgress(e) == e.cb = "progress"
FromLine(e) == e.ln > 0

\* The (fraction, status_text) pairs of the progress calls of a sequence.
Pairs(seq) ==
    LET ps == SelectSeq(seq, IsProgress)
    IN  [i \in 1..Len(ps) |-> <<ps[i].frac, ps[i].text>>]

SinglePhase(o) == o.kind \notin {"none", "apply_driver"}

\* C15: the (fraction, status_text) pairs given to progress_callback while
\* the lines are handled depend on the lines alone, not on when they arrive:
\* they are those of the run in which the same lines arrive without delay (the
\* calls before the first line and after the last depend on the operation and
\* the exit code only).
C15_PairsIndependentOfTiming ==
    SinglePhase(op) =>
        Pairs(SelectSeq(log, FromLine)) = Pairs(Replay(op, InitLocals(op), transcript))

\* ------------------------------------------------- cancellation (C16)
Cancels == {i \in 1..Len(log) : log[i].cb = "cancel"}

\* ProgressDialog._on_cancel_clicked while a kernel operation is under way:
\* cancel_callback (KernelPage._on_operation_canceled) forgets the dialog and
\* reloads the kernel list, then the window is destroyed.  Neither touches the
\* worker thread or its child.
Cancel ==
    /\ Kernel(op)
    /\ pc \in {"started", "try", "loop", "wait", "handler"}
    /\ Cancels = {}
    /\ log' = log \o Stamp(<<Call("cancel", NoFrac, "", FALSE)>>, 0, Running, "ui")
    /\ UNCHANGED <<installed, op, pc, threads, loc, nread, transcript, procs, exc,
                   raisesLeft, query, returned, ui>>

\* Kernel operations run from the kernel page, whose progress dialog has a
\* Cancel button.
NextCancel ==
    \/ \E k \in KernelArgs : InstallKernel(k)
    \/ \E k \in KernelArgs : RemoveKernel(k)
    \/ Prologue
    \/ Spawn
    \/ \E line \in LinesOf(op), delay \in DelaysOf(op) : ReadLine(line, delay)
    \/ ReadEOF
    \/ Finish
    \/ Except
    \/ \E i \in 1..Len(procs), code \in ExitCodes : ChildExit(i, code)
    \/ Cancel

SpecCancel == Init /\ [][NextCancel]_vars

\* C16: once the user has cancelled, termination of the child has been
\* requested (no child is left simply running), no progress or output call of
\* the operation follows, and the only call that may follow is a single
\* complete_callback(False).
C16_NoCallbacksAfterCancel ==
    \A c \in Cancels :
        /\ \A i \in 1..Len(procs) : procs[i].st \in {"terminating", "exited"}
        /\ \A j \in (c + 1)..Len(log) : log[j].cb = "complete" /\ ~log[j].ok
        /\ Cardinality({j \in Completes : j > c}) <= 1

\* ------------------------------------------------- termination (C17)
\* The worker thread keeps running; the child eventually closes its output
\* and exits.
Fairness ==
    /\ WF_vars(Prologue)
    /\ WF_vars(Spawn)
    /\ WF_vars(ReadEOF)
    /\ WF_vars(Finish)
    /\ WF_vars(Except)
    /\ WF_vars(\E i \in 1..Len(procs), code \in ExitCodes : ChildExit(i, code))

SpecLive == Init /\ [][Next]_vars /\ Fairness

\* C17: every started operation eventually delivers complete_callback, given
\* that the child eventually closes its output and exits or fails to spawn.
C17_EventuallyComplete == (pc # "idle") ~> (Completes # {})

C17_Witness ==
    /\ pc = "done" /\ Completes # {}
    /\ nread = MaxLines
    /\ procs # <<>> /\ \A i \in 1..Len(procs) : procs[i].st = "exited"

\* ------------------------------------------------- command lines (C18, C19)
\* Popen calls made so far: the children spawned and the call that failed.
PopenCalls == Len(procs) + (IF exc = "spawn failed" THEN 1 ELSE 0)

PastSpawn == pc \in {"loop", "wait", "handler", "done"}

\* C18: install_kernel(k) issues exactly one Popen, with argv [privilege
\* command, "pacman", "-S", "--noconfirm", k, k + "-headers"]; and
\* install_package(p) exactly one, with argv [privilege command, "pacman",
\* "-S", "--noconfirm", p].
C18_InstallArgv ==
    /\ op.kind = "install_kernel" =>
          /\ PopenCalls <= 1
          /\ PastSpawn => PopenCalls = 1
          /\ \A i \in 1..Len(procs) :
                procs[i].argv = <<SudoCommand, "pacman", "-S", "--noconfirm",
                                  op.target, Headers(op.target)>>
    /\ op.kind = "install_package" =>
          /\ PopenCalls <= 1
          /\ PastSpawn => PopenCalls = 1
          /\ \A i \in 1..Len(procs) :
                procs[i].argv = <<SudoCommand, "pacman", "-S", "--noconfirm", op.target>>

C18_Witness ==
    /\ op.kind = "install_kernel" /\ op.target = "linux66"
    /\ pc = "done" /\ exc = ""
    /\ Len(procs) = 1 /\ procs[1].st = "exited" /\ procs[1].code = 0
    /\ installed = {"linux66", "linux66-headers"}

\* The child of the removal phase of apply_driver, if one was spawned.
RemovalChildren == {i \in 1..Len(procs) : procs[i].argv[3] # "-S"}

\* C19: the removal phase of apply_driver spawns pacman with argv [privilege
\* command, "pacman", "-R", "--noconfirm"] followed by exactly the declared
\* conflicts that are installed, and spawns nothing when none is installed.
C19_RemovalArgv ==
    op.kind = "apply_driver" =>
        /\ op.absent => RemovalChildren = {}
        /\ \A i \in RemovalChildren :
              /\ i = 1
              /\ SubSeq(procs[i].argv, 1, 4) = <<SudoCommand, "pacman", "-R", "--noconfirm">>
              /\ procs[i].st = "running" =>
                    SubSeq(procs[i].argv, 5, Len(procs[i].argv))
                        = FilterSeq(op.driver.conflicts, installed)

\* ------------------------------------------------- package queries (C20)
\* Text is a sequence of characters; the output of a query is the sequence of
\* its lines.
MaxPackages == 3
MaxGap == 3

IsSpace(c) == c \in {" ", "\t"}

RECURSIVE LStrip(_)
LStrip(t) == IF t # <<>> /\ IsSpace(Head(t)) THEN LStrip(Tail(t)) ELSE t

RECURSIVE RStrip(_)
RStrip(t) ==
    IF t # <<>> /\ IsSpace(t[Len(t)]) THEN RStrip(SubSeq(t, 1, Len(t) - 1)) ELSE t

\* The longest prefix of t free of white space.
RECURSIVE TakeWord(_)
TakeWord(t) ==
    IF t = <<>> \/ IsSpace(Head(t)) THEN <<>> ELSE <<Head(t)>> \o TakeWord(Tail(t))

\* line.split(" "): a field between any two spaces, empty ones included.
RECURSIVE SplitOnEachSpace(_)
SplitOnEachSpace(t) ==
    LET w == TakeWord(t)
    IN  IF Len(w) = Len(t) THEN <<w>>
        ELSE <<w>> \o SplitOnEachSpace(SubSeq(t, Len(w) + 2, Len(t)))

\* line.split(): the maximal runs of characters that are not white space.
RECURSIVE Split(_)
Split(t) ==
    LET u == LStrip(t)
        w == TakeWord(u)
    IN  IF u = <<>> THEN <<>>
        ELSE <<w>> \o Split(SubSeq(u, Len(w) + 1, Len(u)))

RECURSIVE DropBlankHead(_)
DropBlankHead(lines) ==
    IF lines # <<>> /\ LStrip(Head(lines)) = <<>> THEN DropBlankHead(Tail(lines))
    ELSE lines

RECURSIVE DropBlankTail(_)
DropBlankTail(lines) ==
    IF lines # <<>> /\ LStrip(lines[Len(lines)]) = <<>>
      THEN DropBlankTail(SubSeq(lines, 1, Len(lines) - 1))
      ELSE lines

\* result.stdout.strip().split("\n")
StripSplit(lines) ==
    LET b == DropBlankTail(DropBlankHead(lines))
    IN  IF b = <<>> THEN << <<>> >>
        ELSE [i \in 1..Len(b) |->
                LET x == IF i = 1 THEN LStrip(b[i]) ELSE b[i]
                IN  IF i = Len(b) THEN RStrip(x) ELSE x]

\* get_installed_packages: the records of one line (none or one).
InstalledRecord(line) ==
    LET parts == Split(line)
    IN  IF Len(parts) >= 2 THEN <<[name |-> parts[1], version |-> parts[2]]>> ELSE <<>>

RECURSIVE InstalledRecords(_)
InstalledRecords(lines) ==
    IF lines = <<>> THEN <<>>
    ELSE (IF Head(lines) = <<>> THEN <<>> ELSE InstalledRecord(Head(lines)))
            \o InstalledRecords(Tail(lines))

\* line.startswith(" ")
Indented(line) == line # <<>> /\ Head(line) = " "

Max(S) == CHOOSE x \in S : \A y \in S : y <= x

\* re.match(r"([^\s]+)/([^\s]+)\s+([^\s]+)", line): the first word, cut at
\* its last "/" that leaves both sides non-empty, and the word after it.
AvailableRecord(line) ==
    LET w == TakeWord(line)
        cuts == {i \in 2..(Len(w) - 1) : w[i] = "/"}
        rest == LStrip(SubSeq(line, Len(w) + 1, Len(line)))
    IN  IF cuts # {} /\ rest # <<>>
          THEN <<[name |-> SubSeq(w, Max(cuts) + 1, Len(w)),
                  version |-> TakeWord(rest),
                  repository |-> SubSeq(w, 1, Max(cuts) - 1)]>>
          ELSE <<>>

RECURSIVE AvailableRecords(_)
AvailableRecords(lines) ==
    IF lines = <<>> THEN <<>>
    ELSE (IF Head(lines) = <<>> \/ Indented(Head(lines)) THEN <<>>
          ELSE AvailableRecord(Head(lines)))
            \o AvailableRecords(Tail(lines))

\* What the repositories hold, as pacman prints it.
Spaces(n) == [i \in 1..n |-> " "]

Known ==
    { [repository |-> <<"c", "o", "r", "e">>, name |-> <<"l", "i", "n", "u", "x">>, version |-> <<"6", ".", "6", "-", "1">>],
      [repository |-> <<"e", "x", "t", "r", "a">>, name |-> <<"m", "e", "s", "a", "-", "g", "i", "t">>, version |-> <<"1", ":", "2", "4", ".", "0", "-", "1">>] }

Tails == { <<>>, <<" ", "[", "i", "n", "s", "t", "a", "l", "l", "e", "d", "]">> }
Descriptions == { <<" ", " ", " ", " ", "T", "h", "e", " ", "L", "i", "n", "u", "x", " ", "k", "e", "r", "n", "e", "l">>,
                  <<" ", " ", " ", " ", "G", "N", "U", "/", "L", "i", "n", "u", "x", " ", "g", "r", "a", "p", "h", "i", "c", "s">> }
Gaps == {1, MaxGap}

\* pacman -Ss: "repo/name version [...]" and the indented description.
AvailableEntries ==
    {e \in [pkg : Known, gap : Gaps, tail : Tails, desc : Descriptions] :
        e.tail = <<>> \/ "/" \notin Range(e.desc)}

AvailableLines(e) ==
    << e.pkg.repository \o <<"/">> \o e.pkg.name \o Spaces(e.gap) \o e.pkg.version \o e.tail,
       e.desc >>

\* pacman -Q: "name version"
InstalledEntries == [pkg : Known, gap : Gaps]

InstalledLines(e) == << e.pkg.name \o Spaces(e.gap) \o e.pkg.version >>

RECURSIVE Output(_, _)
Output(entries, cmd) ==
    IF entries = <<>> THEN <<>>
    ELSE (IF cmd = "-Ss" THEN AvailableLines(Head(entries)) ELSE InstalledLines(Head(entries)))
            \o Output(Tail(entries), cmd)

UpTo(S, n) == UNION {[1..k -> S] : k \in 0..n}

Queried(cmd, code, entries, list) ==
    /\ query' = [cmd |-> <<"pacman", cmd>>, code |-> code, entries |-> entries,
                 stdout |-> Output(entries, cmd)]
    /\ returned' = list
    /\ UNCHANGED <<installed, op, pc, threads, loc, nread, transcript, procs, log, exc,
                   raisesLeft, ui>>

\* PackageManager.get_installed_packages()
GetInstalledPackages ==
    /\ NoQueryYet
    /\ \E entries \in UpTo(InstalledEntries, MaxPackages), code \in ExitCodes :
          Queried("-Q", code, entries,
                  IF code # 0 THEN <<>>
                  ELSE InstalledRecords(StripSplit(Output(entries, "-Q"))))

\* PackageManager.get_available_packages()
GetAvailablePackages ==
    /\ NoQueryYet
    /\ \E entries \in UpTo(AvailableEntries, MaxPackages), code \in ExitCodes :
          Queried("-Ss", code, entries,
                  IF code # 0 THEN <<>>
                  ELSE AvailableRecords(StripSplit(Output(entries, "-Ss"))))

NextQuery ==
    \/ GetInstalledPackages
    \/ GetAvailablePackages

SpecQuery == InitScenario /\ [][NextQuery]_vars

\* The record the query function is to return for an entry.
RecordOf(e, cmd) ==
    IF cmd = "-Ss" THEN e.pkg
    ELSE [name |-> e.pkg.name, version |-> e.pkg.version]

\* C20: a query returns exactly one record per package line, in order, with
\* that line's name and version (and repository for pacman -Ss), whatever the
\* spacing between the fields and whatever follows the version; description
\* lines give no record; a non-zero exit code gives the empty list.
C20_ParsedRecords ==
    query # NoQuery =>
        returned = IF query.code # 0 THEN <<>>
                   ELSE [i \in 1..Len(query.entries) |->
                            RecordOf(query.entries[i], query.cmd[2])]

C20_Witness ==
    /\ query # NoQuery /\ query.cmd[2] = "-Ss" /\ query.code = 0
    /\ Len(returned) = MaxPackages
    /\ \E i \in 1..Len(query.entries) :
          /\ query.entries[i].gap = MaxGap
          /\ query.entries[i].tail # <<>>
    /\ \E i \in 1..Len(query.entries) : "/" \in Range(query.entries[i].desc)
    /\ returned[1].repository = <<"c", "o", "r", "e">>

\* ------------------------------------------------- monotonicity (C21)
\* The progress calls made while the child's output is streamed.
Streamed == {i \in Progresses : log[i].ln > 0}

\* C21: within one operation the fractions given to progress_callback while
\* the output is streamed (before the final 1.0 / 0.0) never decrease,
\* whatever the order of the trigger lines.
C21_StreamedFractionsMonotone ==
    \A i, j \in Streamed : i < j => RLe(log[i].frac, log[j].frac)

\* ------------------------------------------------- lines with several triggers (C22)
LMixDl == Line("downloading linux66 50% (1/4)", {"downloading"}, 50, 1, 4, FALSE)
LMixInstalling == Line("installing linux66-6.6.1-1...", {"installing"}, -1, -1, -1, TRUE)
LMixSync ==
    Line("synchronizing package databases, checking dependencies",
         {"synchronizing package databases", "checking dependencies"}, -1, -1, -1, FALSE)

MixedLines == {LMixDl, LMixInstalling, LMixSync, LInstalling, LDl14}

\* Kernel installation whose child prints lines that hold several triggers.
NextTriggers ==
    \/ InstallKernel("linux66")
    \/ Prologue
    \/ Spawn
    \/ \E line \in MixedLines, delay \in Delays : ReadLine(line, delay)
    \/ ReadEOF
    \/ Finish
    \/ Except
    \/ \E i \in 1..Len(procs), code \in ExitCodes : ChildExit(i, code)

SpecTriggers == InitScenario /\ [][NextTriggers]_vars

\* The progress calls a line caused by its content (the periodic re-emission
\* is caused by the clock).
CausedBy(k) == {i \in Streamed : log[i].ln = k /\ log[i].text # "None"}

\* C22: a line causes at most one transition, that of its first matching
\* trigger: all the progress calls it causes carry one fraction, also when it
\* holds lower-priority triggers, numeric tokens or a package token.
C22_OneTransitionPerLine ==
    \A k \in 1..Len(transcript) :
        \A i, j \in CausedBy(k) : log[i].frac = log[j].frac

\* ------------------------------------------------- unmatched lines (C23)
\* The line matches no trigger of the install loop and carries no token.
Unmatched(line) ==
    /\ KIBranch(Locals(Zero, 0), <<>>, line).calls = <<>>
    /\ KIBranch([Locals(Zero, 0) EXCEPT !.installing = TRUE], <<>>, line).calls = <<>>
    /\ ~line.pkg

\* C23: a progress call made while an unmatched line is handled (the periodic
\* re-emission) carries the fraction of the most recent earlier progress call
\* of the operation, whichever trigger made that call.
C23_UnmatchedKeepsFraction ==
    op.kind = "install_kernel" =>
        \A j \in Streamed :
            Unmatched(transcript[log[j].ln]) =>
                LastFractionBefore(j, log[j].frac)

\* ------------------------------------- case and language of triggers (C24)
\* line.lower(), on the phrases of the vocabulary.
LowerCase(line) == [line EXCEPT !.words = {Lower(w) : w \in line.words}]

\* The (fraction, status) pairs of the progress calls of `seq` that a trigger
\* made.
Emitted(seq) ==
    {<<seq[i].frac, seq[i].text>> :
        i \in {k \in 1..Len(seq) : seq[k].cb = "progress" /\ seq[k].text # "None"}}

\* The locals when a line is read `delay` after the previous iteration.
Aged(st, delay) ==
    [st EXCEPT !.ageU = Min(st.ageU + delay, AgeCap),
               !.ageL = Min(st.ageL + delay, AgeCap)]

\* C24: in every runner a line and its lower-case variant produce the same
\* progress emissions and the same state: whenever a line is read, the
\* emissions and the new values of the runner's variables are those the
\* runner produces, from the same state at the same time, for the
\* lower-cased line.
C24_CaseInsensitiveTriggers ==
    [][transcript' # transcript =>
         LET line == transcript'[Len(transcript')]
         IN  \E delay \in DelaysOf(op) :
               LET real == ProcessLine(op, Aged(loc, delay), line)
                   low == ProcessLine(op, Aged(loc, delay), LowerCase(line))
               IN  /\ loc' = real.st
                   /\ Emitted(NewCalls) = Emitted(low.calls)
                   /\ loc' = low.st]_vars

\* --------------------------------------------------- download band (C25)
InDownloadBand(f) == RLe(Frac(1, 10), f) /\ RLe(f, Frac(5, 10))

\* C25: the progress calls a downloading line causes all carry
\* 0.1 + (current/total) * 0.4 when the line has a "(current/total)" token,
\* 0.1 + (NN/100) * 0.4 when it has only a "NN%" token, in both cases inside
\* [0.1, 0.5], and the fraction of the previous progress call when it has
\* neither token.
C25_DownloadFraction ==
    op.kind \in {"install_kernel", "install_package"} =>
        \A k \in 1..Len(transcript) :
            LET line == transcript[k]
                F == {log[i].frac : i \in CausedBy(k)}
            IN  HasLower(line, "downloading") /\ line.tot # 0 =>
                  IF HasRatio(line)
                    THEN /\ F = {Scale(Frac(1, 10), line.cur, line.tot, Frac(4, 10))}
                         /\ \A f \in F : InDownloadBand(f)
                  ELSE IF HasPercent(line)
                    THEN /\ F = {Scale(Frac(1, 10), line.pct, 100, Frac(4, 10))}
                         /\ \A f \in F : InDownloadBand(f)
                  ELSE \A i \in CausedBy(k) : LastFractionBefore(i, log[i].frac)

\* ------------------------------------------------ damped installing (C26)
MaxDampLines == 4

DampLines == {LDl14, LCapDl, LInstalling, LCapInstalling, LInstalled}

\* The child prints one more line; the iteration of the loop on it.
DampLine(line) == nread < MaxDampLines /\ Iteration(line, 0)

NextDamp ==
    \/ InstallKernel("linux66")
    \/ InstallPackage("htop")
    \/ UpdateSystem
    \/ Prologue
    \/ Spawn
    \/ \E line \in DampLines : DampLine(line)
    \/ ReadEOF
    \/ Finish
    \/ Except
    \/ \E i \in 1..Len(procs), code \in ExitCodes : ChildExit(i, code)

SpecDamp == InitScenario /\ [][NextDamp]_vars

\* progress_callback(progress, "Installing...")
Damped(e) == e.cb = "progress" /\ e.text = "Installing..."

\* The value p with p = 0.5 + p * 0.1.
DampFixedPoint == Frac(5, 9)

\* Every progress call of the damping branch carries
\* min(0.5 + progress * 0.1, 0.9) of the runner's progress before the line,
\* which becomes the new progress; the fraction lies in [0.5, 0.9]; and while
\* progress is below the fixed point of the recurrence the fraction is larger
\* than progress and stays below the fixed point.
DampRecurrence ==
    [][\A i \in 1..Len(NewCalls) :
         Damped(NewCalls[i]) =>
            LET f == NewCalls[i].frac
            IN  /\ f = RMin(RAdd(Frac(5, 10), RMul(loc.progress, Frac(1, 10))), Frac(9, 10))
                /\ loc'.progress = f
                /\ RLe(Frac(5, 10), f) /\ RLe(f, Frac(9, 10))
                /\ RLt(loc.progress, DampFixedPoint) =>
                      /\ RLt(loc.progress, f)
                      /\ RLt(f, DampFixedPoint)]_vars

\* C26: in the installing state every further line with "installing" in it
\* (in any letter case) replaces progress by min(0.5 + progress * 0.1, 0.9)
\* and reports that fraction, which lies in [0.5, 0.9] and, from a progress
\* of at most 0.5, above progress and below 0.9.
C26_InstallingLineDamps ==
    [][transcript' # transcript /\ loc.installing
          /\ HasLower(transcript'[Len(transcript')], "installing") =>
         LET f == RMin(RAdd(Frac(5, 10), RMul(loc.progress, Frac(1, 10))), Frac(9, 10))
         IN  /\ \E i \in 1..Len(NewCalls) : Damped(NewCalls[i]) /\ NewCalls[i].frac = f
             /\ loc'.progress = f
             /\ RLe(Frac(5, 10), f) /\ RLe(f, Frac(9, 10))
             /\ RLe(loc.progress, Frac(5, 10)) =>
                   RLt(loc.progress, f) /\ RLt(f, Frac(9, 10))]_vars

\* ------------------------------ KernelManager._get_lts_kernel_versions (C27)
MaxItems == 3

\* return ["66", "612", "614"]
Fallback == <<"66", "612", "614">>

\* An <item> of the feed: whether it has a <title> element, whether the
\* element has text, the "N.N" the text starts with ("" when it starts with
\* none) and the word after ": ".
Item(title, text, version, marker) ==
    [title |-> title, text |-> text, version |-> version, marker |-> marker]

Items ==
    {Item(FALSE, FALSE, "", ""), Item(TRUE, FALSE, "", "")}
      \cup {Item(TRUE, TRUE, v, m) : v \in {"6.6", "6.12", ""}, m \in {"longterm", "stable"}}

\* version.replace(".", "")
WithoutDots(version) ==
    CASE version = "6.6" -> "66"
      [] version = "6.12" -> "612"
      [] OTHER -> version

\* What requests.get did: raised Timeout or ConnectionError, or returned a
\* response with a status code and a body that is the feed or not XML at all.
Response(outcome, status, body, items) ==
    [outcome |-> outcome, status |-> status, body |-> body, items |-> items]

Responses ==
    {Response(o, 0, "", <<>>) : o \in {"Timeout", "ConnectionError"}}
      \cup {Response("response", st, "xml", <<>>) : st \in {404, 500}}
      \cup {Response("response", 200, "not xml", <<>>)}
      \cup {Response("response", 200, "xml", items) : items \in UpTo(Items, MaxItems)}

\* The `for item in root.findall(".//item")` loop; a title without text makes
\* `": longterm" in title.text` raise TypeError, which the handler turns into
\* the fallback.
RECURSIVE LtsLoop(_, _)
LtsLoop(items, lts_versions) ==
    IF items = <<>> THEN lts_versions
    ELSE LET item == Head(items)
         IN  IF ~item.title THEN LtsLoop(Tail(items), lts_versions)
             ELSE IF ~item.text THEN Fallback
             ELSE IF item.marker = "longterm" /\ item.version # ""
               THEN LtsLoop(Tail(items), Append(lts_versions, WithoutDots(item.version)))
             ELSE LtsLoop(Tail(items), lts_versions)

GetLtsKernelVersions(r) ==
    IF r.outcome # "response" THEN Fallback
    ELSE IF r.status # 200 THEN <<>>
    ELSE IF r.body # "xml" THEN Fallback
    ELSE LtsLoop(r.items, <<>>)

\* self.lts_versions = self._get_lts_kernel_versions()
LoadLtsVersions(r) ==
    /\ NoQueryYet
    /\ query' = [cmd |-> <<"requests.get", r.outcome>>, code |-> r.status,
                 entries |-> r.items, stdout |-> <<r.body>>]
    /\ returned' = GetLtsKernelVersions(r)
    /\ UNCHANGED <<installed, op, pc, threads, loc, nread, transcript, procs, log, exc,
                   raisesLeft, ui>>

NextFeed == \E r \in Responses : LoadLtsVersions(r)

SpecFeed == InitScenario /\ [][NextFeed]_vars

FeedFetched == query.cmd # <<>> /\ query.cmd[1] = "requests.get"

\* The fetch failed: no response, a status other than 200, a body that is not
\* XML, or an item whose title has no text.
FetchFailed ==
    \/ query.cmd[2] # "response"
    \/ query.code # 200
    \/ query.stdout # <<"xml">>
    \/ \E i \in 1..Len(query.entries) : query.entries[i].title /\ ~query.entries[i].text

RECURSIVE Longterm(_)
Longterm(items) ==
    IF items = <<>> THEN <<>>
    ELSE LET rest == Longterm(Tail(items))
         IN  IF Head(items).title /\ Head(items).marker = "longterm" /\ Head(items).version # ""
               THEN <<WithoutDots(Head(items).version)>> \o rest
               ELSE rest

\* C27: the fetch of the long-term versions returns the fallback
\* <<"66", "612", "614">> on every failure (timeout, connection error, status
\* other than 200, unparsable body, item whose title has no text) and, on
\* success, the versions of exactly the items whose title is marked longterm,
\* in feed order.
C27_LtsVersionsOrFallback ==
    FeedFetched =>
        returned = IF FetchFailed THEN Fallback ELSE Longterm(query.entries)

\* ------------------------------------------------------------ the pages
\* KernelPage of comm-kernel-manager/ui (a ProgressDialog per operation),
\* KernelPage and MesaPage of Comm-kernel-manager/ui (a progress bar in the
\* page). A worker is the thread a manager started for one operation; it calls
\* the callbacks the page gave it and, last, the completion callback.
MaxOps == 2
MaxCalls == 2

Pages == {"kernel_dialog", "kernel_inline", "mesa"}

OnlyUi ==
    UNCHANGED <<installed, op, pc, threads, loc, nread, transcript, procs, log, exc,
                raisesLeft, query, returned>>

\* A widget update: the method that made it, the thread it ran on, the
\* operation it belongs to and the issue number of the callback that caused it
\* (0 when the page itself made it).
Update(fn, thread, k, seq) == [fn |-> fn, thread |-> thread, op |-> k, seq |-> seq]

\* GLib.idle_add(fn, ...)
Dispatch(fn, k, seq, ok) == [fn |-> fn, op |-> k, seq |-> seq, ok |-> ok]

OpenDialogs == {d \in 1..Len(ui.dialogs) : ui.dialogs[d].open}

\* The window shows a page.
Present(page) ==
    /\ ui.page = "none"
    /\ ui' = [ui EXCEPT !.page = page]
    /\ OnlyUi

\* _on_dialog_response / _on_confirm_dialog_response with the confirming
\* response: the page starts the operation. The dialog is modal; the Mesa
\* page's button stays insensitive until _application_complete.
StartOperation ==
    /\ ui.page # "none"
    /\ Len(ui.workers) < MaxOps
    /\ ui.page = "kernel_dialog" => OpenDialogs = {}
    /\ ui.page = "mesa" =>
          /\ \A k \in 1..Len(ui.workers) : ui.workers[k].st = "done"
          /\ \A i \in 1..Len(ui.idle) : ui.idle[i].fn # "complete"
    /\ LET k == Len(ui.workers) + 1
           worker == [st |-> "running", calls |-> 0]
       IN  ui' = IF ui.page = "kernel_dialog"
                   THEN [ui EXCEPT !.dialogs = Append(@, [open |-> TRUE, done |-> <<>>]),
                                   !.current = k,
                                   !.workers = Append(@, worker),
                                   !.applied = Append(@, Update("append_terminal_text", "main", k, 0))]
                   ELSE [ui EXCEPT !.workers = Append(@, worker),
                                   !.applied = Append(@, Update("set_fraction", "main", k, 0))]
    /\ OnlyUi

\* The worker calls progress_callback or output_callback: on the dialog page
\* these are ProgressDialog.update_progress and append_terminal_text
\* themselves, on the other pages wrappers that call GLib.idle_add.
Callback(k, fn) ==
    /\ k \in 1..Len(ui.workers)
    /\ ui.workers[k].st = "running"
    /\ ui.workers[k].calls < MaxCalls
    /\ fn = "append_terminal_text" => ui.page # "mesa"
    /\ LET seq == ui.issued + 1
           ran == [ui EXCEPT !.issued = seq, !.workers[k].calls = @ + 1]
       IN  ui' = IF ui.page = "kernel_dialog"
                   THEN [ran EXCEPT !.applied = Append(@, Update(fn, "worker", k, seq))]
                   ELSE [ran EXCEPT !.idle = Append(@, Dispatch(fn, k, seq, FALSE))]
    /\ OnlyUi

\* The worker calls complete_callback(success), on every page a lambda that
\* calls GLib.idle_add, and ends.
CompleteCallback(k, success) ==
    /\ k \in 1..Len(ui.workers)
    /\ ui.workers[k].st = "running"
    /\ ui' = [ui EXCEPT !.issued = @ + 1,
                        !.workers[k].st = "done",
                        !.idle = Append(@, Dispatch("complete", k, ui.issued + 1, success))]
    /\ OnlyUi

\* The main loop runs the oldest idle callback. _operation_complete calls
\* self.progress_dialog.set_complete(success) when the attribute is there.
MainLoop ==
    /\ ui.idle # <<>>
    /\ LET h == Head(ui.idle)
           ran == [ui EXCEPT !.idle = Tail(@),
                             !.applied = Append(@, Update(h.fn, "main", h.op, h.seq))]
       IN  ui' = IF h.fn = "complete" /\ ui.page = "kernel_dialog" /\ ui.current # 0
                   THEN [ran EXCEPT !.dialogs[ui.current].done =
                                        Append(@, [op |-> h.op, ok |-> h.ok])]
                   ELSE ran
    /\ OnlyUi

\* _on_cancel_clicked: cancel_callback (_on_operation_canceled deletes the
\* page's progress_dialog attribute), then destroy.
CancelClicked(d) ==
    /\ d \in OpenDialogs
    /\ ui.dialogs[d].done = <<>>
    /\ ui' = [ui EXCEPT !.current = 0, !.dialogs[d].open = FALSE]
    /\ OnlyUi

\* After set_complete the button is "Close": destroy.
CloseClicked(d) ==
    /\ d \in OpenDialogs
    /\ ui.dialogs[d].done # <<>>
    /\ ui' = [ui EXCEPT !.dialogs[d].open = FALSE]
    /\ OnlyUi

NextUi ==
    \/ \E page \in Pages : Present(page)
    \/ StartOperation
    \/ \E k \in 1..MaxOps, fn \in {"update_progress", "append_terminal_text"} : Callback(k, fn)
    \/ \E k \in 1..MaxOps, success \in BOOLEAN : CompleteCallback(k, success)
    \/ MainLoop
    \/ \E d \in 1..MaxOps : CancelClicked(d)
    \/ \E d \in 1..MaxOps : CloseClicked(d)

SpecUi == InitScenario /\ [][NextUi]_vars

\* The widget updates the callbacks of the workers caused.
FromCallbacks == {i \in 1..Len(ui.applied) : ui.applied[i].seq > 0}

\* C28: every widget update a progress, output or completion callback causes
\* runs on the main loop, never on the worker thread, on each of the three
\* pages, and the updates are applied in the order the callbacks were issued.
C28_UpdatesOnMainLoop ==
    /\ \A i \in FromCallbacks : ui.applied[i].thread = "main"
    /\ \A i, j \in FromCallbacks : i < j => ui.applied[i].seq < ui.applied[j].seq

\* C29: set_complete is invoked at most once on a dialog, and only with the
\* result of the operation the dialog was opened for.
C29_SetCompleteOncePerDialog ==
    \A d \in 1..Len(ui.dialogs) :
        /\ Len(ui.dialogs[d].done) <= 1
        /\ \A i \in 1..Len(ui.dialogs[d].done) : ui.dialogs[d].done[i].op = d

\* --------------------------------- MesaManager.get_available_drivers (C30)
\* The driver packages in the order pacman -Q lists them.
ListedOrder == <<"mesa", "mesa-amber", "mesa-git", "mesa-tkg", "mesa-tkg-git">>

\* A loop that keeps the last driver with an installed package.
RECURSIVE GetActiveDriverLast(_, _)
GetActiveDriverLast(drivers, installed_names) ==
    IF drivers = <<>> THEN "stable"
    ELSE LET d == drivers[Len(drivers)]
         IN  IF Range(d.packages) \cap installed_names # {} THEN d.id
             ELSE GetActiveDriverLast(SubSeq(drivers, 1, Len(drivers) - 1), installed_names)

\* _get_active_driver: the id of the first driver one of whose packages is
\* among the installed names, "stable" when there is none.
RECURSIVE GetActiveDriver(_, _)
GetActiveDriver(drivers, installed_names) ==
    IF drivers = <<>> THEN "stable"
    ELSE IF Range(Head(drivers).packages) \cap installed_names # {} THEN Head(drivers).id
    ELSE GetActiveDriver(Tail(drivers), installed_names)

\* driver["active"] = (driver["id"] == active_driver), for each driver
MarkActive(drivers, active_driver) ==
    [i \in 1..Len(drivers) |->
        [id |-> drivers[i].id, packages |-> drivers[i].packages,
         conflicts |-> drivers[i].conflicts, active |-> drivers[i].id = active_driver]]

\* MesaManager.get_available_drivers(); get_installed_packages() gives the
\* packages pacman -Q lists, and the empty list when pacman fails.
GetAvailableDrivers(code) ==
    /\ NoQueryYet
    /\ LET entries == FilterSeq(ListedOrder, installed)
           installed_names == IF code = 0 THEN Range(entries) ELSE {}
       IN  /\ query' = [cmd |-> <<"pacman", "-Q">>, code |-> code, entries |-> entries,
                        stdout |-> IF code = 0 THEN entries ELSE <<>>]
           /\ returned' = MarkActive(Drivers, GetActiveDriver(Drivers, installed_names))
    /\ UNCHANGED <<installed, op, pc, threads, loc, nread, transcript, procs, log, exc,
                   raisesLeft, ui>>

\* The listing taken at any time before, during or after apply_driver (the
\* children print nothing).
NextCatalog ==
    \/ \E code \in ExitCodes : GetAvailableDrivers(code)
    \/ \E id \in DriverArgs : ApplyDriver(id)
    \/ Prologue
    \/ Spawn
    \/ ReadEOF
    \/ Finish
    \/ Except
    \/ \E i \in 1..Len(procs), code \in ExitCodes : ChildExit(i, code)

SpecCatalog == InitDrivers /\ [][NextCatalog]_vars

DriversListed == query # NoQuery

\* Driver i of the catalog has one of its packages among those listed.
HasInstalled(i) == Range(Drivers[i].packages) \cap Range(query.stdout) # {}

====
